---- MODULE Spec2Model ----
(***************************************************************************)
(* Identity reconciliation service (identify) over the Contact table.      *)
(* The table is a PostgreSQL table reached through PostgresDBClient; every *)
(* identify request runs its statements inside one BEGIN ... COMMIT block  *)
(* at the server's default isolation level (READ COMMITTED): a statement   *)
(* sees the rows committed before it starts plus the transaction's own     *)
(* uncommitted writes.                                                     *)
(***************************************************************************)
EXTENDS Integers, Sequences, FiniteSets, TLC

\* ---------------------------------------------------------------- bounds
MaxContacts == 4
MaxOverlaps == 1

\* ---------------------------------------------------------------- values
\* SQL NULL / JavaScript null or undefined for the two text columns.
NULL == "NULL"
\* The empty string: a falsy value that is neither null nor undefined.
EMPTY == ""
\* SQL NULL for the integer column linkedId (ids start at 1).
NullId == 0
\* SQL NULL for the timestamp column deletedAt (timestamps start at 1).
NullTime == 0

Emails == {"a@x.com", "b@y.com"}
Phones == {"111", "222"}
EmailInputs == Emails \cup {NULL, EMPTY}
PhoneInputs == Phones \cup {NULL, EMPTY}
\* The requests of the specifications with failing queries or concurrent
\* calls carry values or null (no empty strings), with one phoneNumber.
FewEmailInputs == Emails \cup {NULL}
FewPhoneInputs == {"111", NULL}

Procs == {1, 2}

\* JavaScript truthiness of a string | null | undefined.
Truthy(v) == v # NULL /\ v # EMPTY

\* The JavaScript expression (v || null).
OrNull(v) == IF Truthy(v) THEN v ELSE NULL

\* Array.prototype.sort() without a comparator orders strings by code
\* unit; this is that order on the strings of the model.
CodeUnitOrder == <<"111", "222", "a@x.com", "b@y.com">>
StrRank(s) == CHOOSE i \in 1..Len(CodeUnitOrder) : CodeUnitOrder[i] = s
StrLess(a, b) == StrRank(a) < StrRank(b)

VARIABLES
    contacts,        \* committed rows of table Contact: id -> row
    nextId,          \* contact_id_seq: the id the next INSERT receives
    txn,             \* per connection: the identify call in progress on it
    request,         \* the latest completed identify call: its request,
    response,        \*   the response it returned (NoResponse when it threw),
    outcome,         \*   "ok" or "error" ("none" before the first call),
    before,          \*   the committed table when its transaction committed,
    created,         \*   the ids of the rows it inserted,
    resubmitted,     \*   whether it repeated the call completed just before it
    prevResponse,    \*   and, if so, the response of that call,
    statusCode,      \*   the statusCode the handler answered with
    overlaps         \* number of calls begun while another call was in progress

vars == <<contacts, nextId, txn, request, response, outcome, before, created,
          resubmitted, prevResponse, statusCode, overlaps>>

history == <<request, response, outcome, before, created, resubmitted, prevResponse,
             statusCode>>

\* The statusCode values of the handler's three returns (NoStatus: the
\* handler has returned nothing).
StatusOk == 200
StatusBadRequest == 400
StatusServerError == 500
NoStatus == 0

NoRequest == [email |-> NULL, phoneNumber |-> NULL]
NoResponse == [primaryContactId |-> NullId, emails |-> <<>>,
               phoneNumbers |-> <<>>, secondaryContactIds |-> <<>>]
EmptyTable == << >>

\* A connection with no identify call in progress.
IdleTxn ==
    [pc |-> "idle", request |-> NoRequest, txnTime |-> NullTime, writes |-> EmptyTable,
     primaryContacts |-> <<>>, linkedPrimaryIds |-> <<>>, demotedPrimaryIds |-> <<>>,
     secondariesToRelink |-> {}, ultimatePrimary |-> NullId,
     response |-> NoResponse, created |-> {}]

\* ------------------------------------------------------------- sequences
Range(s) == {s[i] : i \in 1..Len(s)}

RECURSIVE SeqMap(_, _)
\* s.map(Op)
SeqMap(Op(_), s) == IF s = <<>> THEN <<>> ELSE <<Op(Head(s))>> \o SeqMap(Op, Tail(s))

RECURSIVE SeqFilter(_, _)
SeqFilter(Test(_), s) ==
    IF s = <<>> THEN <<>>
    ELSE (IF Test(Head(s)) THEN <<Head(s)>> ELSE <<>>) \o SeqFilter(Test, Tail(s))

\* Insert x into the sorted sequence s after every element that is not
\* greater than it (keeps equal elements in arrival order).
RECURSIVE InsertSorted(_, _, _)
InsertSorted(Less(_, _), x, s) ==
    IF s = <<>> THEN <<x>>
    ELSE IF Less(x, Head(s)) THEN <<x>> \o s
    ELSE <<Head(s)>> \o InsertSorted(Less, x, Tail(s))

\* Array.prototype.sort(compare): a stable sort.
RECURSIVE StableSort(_, _)
StableSort(Less(_, _), s) ==
    IF s = <<>> THEN <<>>
    ELSE InsertSorted(Less, s[Len(s)], StableSort(Less, SubSeq(s, 1, Len(s) - 1)))

\* Keep the first occurrence of every element (insertion order of a Set,
\* or of the keys of a Map).
RECURSIVE Dedupe(_)
Dedupe(s) ==
    IF s = <<>> THEN <<>>
    ELSE LET front == Dedupe(SubSeq(s, 1, Len(s) - 1))
             x == s[Len(s)]
         IN IF x \in Range(front) THEN front ELSE Append(front, x)

\* ------------------------------------------------------------ the table
\* Rows a query can return: "deletedAt" IS NULL.
Live(t) == {t[i] : i \in {j \in DOMAIN t : t[j].deletedAt = NullTime}}

\* The rows of S with the least createdAt.
Oldest(S) == {r \in S : \A o \in S : r.createdAt <= o.createdAt}

\* ORDER BY "createdAt" ASC: every listing of S by nondecreasing createdAt
\* (rows with equal createdAt come in an order the server chooses).
RECURSIVE OrderByCreatedAt(_)
OrderByCreatedAt(S) ==
    IF S = {} THEN {<<>>}
    ELSE UNION {{<<r>> \o rest : rest \in OrderByCreatedAt(S \ {r})} : r \in Oldest(S)}

\* t with the row versions of w written over it.
Overlay(t, w) ==
    [i \in DOMAIN t \cup DOMAIN w |-> IF i \in DOMAIN w THEN w[i] ELSE t[i]]

\* PostgresDBClient.findContacts: the WHERE clause.
findContactsWhere(t, email, phoneNumber) ==
    IF ~Truthy(email) /\ ~Truthy(phoneNumber) THEN {}
    ELSE {r \in Live(t) : \/ (Truthy(email) /\ r.email = email)
                          \/ (Truthy(phoneNumber) /\ r.phoneNumber = phoneNumber)}

\* PostgresDBClient.findContacts: the possible result arrays.
findContacts(t, email, phoneNumber) ==
    OrderByCreatedAt(findContactsWhere(t, email, phoneNumber))

\* PostgresDBClient.createContact: the row INSERT stores under the id drawn
\* from the sequence, with the column defaults of the schema.
createContact(id, data, time) ==
    [id |-> id, phoneNumber |-> data.phoneNumber, email |-> data.email,
     linkedId |-> data.linkedId, linkPrecedence |-> data.linkPrecedence,
     createdAt |-> time, updatedAt |-> time, deletedAt |-> NullTime]

\* PostgresDBClient.updateContacts: the SET clause applied to one row. data
\* is the Partial<Contact> argument: a record holding only the given keys.
updateRow(r, data, time) ==
    [r EXCEPT
       !.linkPrecedence = IF "linkPrecedence" \in DOMAIN data /\ Truthy(data.linkPrecedence)
                          THEN data.linkPrecedence ELSE @,
       !.linkedId = IF "linkedId" \in DOMAIN data THEN data.linkedId ELSE @,
       !.updatedAt = time]

\* PostgresDBClient.updateContacts: the new versions of the rows UPDATE
\* writes (none when ids or data is empty).
updateContacts(t, ids, data, time) ==
    IF ids = {} \/ DOMAIN data = {} THEN << >>
    ELSE [i \in ids \cap DOMAIN t |-> updateRow(t[i], data, time)]

\* PostgresDBClient.findById: res.rows (rows[0] is the result, undefined
\* when there is none).
findById(t, id) == {r \in Live(t) : r.id = id}

\* PostgresDBClient.findByLinkedId.
findByLinkedId(t, linkedId) == {r \in Live(t) : r.linkedId = linkedId}

\* PostgresDBClient.queryAllLinkedContacts: the WHERE clause.
queryAllLinkedWhere(t, primaryId) ==
    {r \in Live(t) : r.id = primaryId \/ r.linkedId = primaryId}

\* PostgresDBClient.queryAllLinkedContacts: the possible result arrays.
queryAllLinkedContacts(t, primaryId) ==
    OrderByCreatedAt(queryAllLinkedWhere(t, primaryId))


\* ------------------------------------------------------------- identify
\* Each statement of identify is a function from the call's context c (its
\* locals, its uncommitted writes and the statement it is at) and the
\* committed table t to the contexts the statement can leave it in.

\* The table as the statements of the transaction of c see it: the
\* committed rows, overlaid with its own uncommitted row versions.
View(c, t) == Overlay(t, c.writes)

\* A comparator that puts the younger row first; with it the merge keeps
\* the wrong primary.
CreatedAfter(a, b) == b.createdAt < a.createdAt

\* The comparator (a, b) => a.createdAt.getTime() - b.createdAt.getTime().
CreatedBefore(a, b) == a.createdAt < b.createdAt

\* Array.from(new Map(s.map((p) => [p.id, p])).values()): one row per id,
\* at the place of the id's first occurrence, holding its last occurrence.
UniqueById(s) ==
    LET ids == Dedupe(SeqMap(LAMBDA r : r.id, s))
        lastOf(id) == s[CHOOSE i \in 1..Len(s) :
                          s[i].id = id /\ \A j \in (i + 1)..Len(s) : s[j].id # id]
    IN SeqMap(lastOf, ids)

\* Lines 52-73 and the branch conditions of lines 59 and 75: from the
\* primaries gathered in found, the sorted array primaryContacts, the
\* ultimate primary, the demoted ids and the statement that comes next.
Decide(c, found) ==
    LET sorted == StableSort(CreatedBefore, UniqueById(found))
        demoted == SeqMap(LAMBDA r : r.id, Tail(sorted))
    IN IF sorted = <<>>
       THEN [c EXCEPT !.primaryContacts = sorted, !.pc = "createPrimary"]
       ELSE [c EXCEPT !.primaryContacts = sorted,
                      !.ultimatePrimary = sorted[1].id,
                      !.demotedPrimaryIds = demoted,
                      !.pc = IF demoted # <<>> THEN "demote" ELSE "checkGroup"]

\* identify, lines 13-19: the context of a call that passed validation and
\* whose transaction began at time t.
BeginTxn(email, phoneNumber, t) ==
    [IdleTxn EXCEPT !.pc = "findContacts",
                    !.request = [email |-> email, phoneNumber |-> phoneNumber],
                    !.txnTime = t]

\* identify, lines 20-43 (and 52-73 when no secondary was matched).
FindContactsStmt(c, t) ==
    {LET primaries == SeqFilter(LAMBDA x : x.linkPrecedence = "primary",
                                existingContacts)
         secondaries == SeqFilter(LAMBDA x : x.linkPrecedence # "primary",
                                  existingContacts)
         linked == Dedupe(SeqMap(LAMBDA x : x.linkedId,
                                 SeqFilter(LAMBDA x : x.linkedId # NullId, secondaries)))
     IN IF linked = <<>> THEN Decide(c, primaries)
        ELSE [c EXCEPT !.primaryContacts = primaries,
                       !.linkedPrimaryIds = linked,
                       !.pc = "findById"] :
     existingContacts \in findContacts(View(c, t), c.request.email,
                                       c.request.phoneNumber)}

\* A variant of lines 45-50 that looks no primary up: the primaries of
\* the matched secondaries are left out of the candidates.
FindByIdSkipped(c, t) ==
    LET rest == Tail(c.linkedPrimaryIds)
    IN IF rest = <<>>
       THEN Decide([c EXCEPT !.linkedPrimaryIds = rest], c.primaryContacts)
       ELSE [c EXCEPT !.linkedPrimaryIds = rest]

\* identify, lines 45-50: one turn of the loop over linkedPrimaryIds (and
\* lines 52-73 after its last turn).
FindByIdStmt(c, t) ==
    LET id == Head(c.linkedPrimaryIds)
        rows == findById(View(c, t), id)
        found == IF \E primary \in rows : primary.linkPrecedence = "primary"
                 THEN Append(c.primaryContacts, CHOOSE primary \in rows : TRUE)
                 ELSE c.primaryContacts
        rest == Tail(c.linkedPrimaryIds)
    IN IF rest = <<>>
       THEN Decide([c EXCEPT !.linkedPrimaryIds = rest], found)
       ELSE [c EXCEPT !.linkedPrimaryIds = rest, !.primaryContacts = found]

\* The INSERT of createContact in the transaction of c: the row takes id,
\* the value drawn from the sequence.
Insert(c, id, data) ==
    [c EXCEPT !.writes = Overlay(@, id :> createContact(id, data, c.txnTime)),
              !.created = @ \cup {id}]

\* The UPDATE of updateContacts in the transaction of c.
Update(c, t, ids, data) ==
    [c EXCEPT !.writes = Overlay(@, updateContacts(View(c, t), ids, data, c.txnTime))]

\* A variant of the creation of lines 59-67 that writes the row as a
\* secondary; a new group would then have no primary.
CreatePrimaryAsSecondary(c, id) ==
    [Insert(c, id, [email |-> OrNull(c.request.email),
                    phoneNumber |-> OrNull(c.request.phoneNumber),
                    linkPrecedence |-> "secondary",
                    linkedId |-> NullId])
       EXCEPT !.ultimatePrimary = id, !.pc = "assemble"]

\* identify, lines 59-67: no primary was found, a new primary is created.
CreatePrimaryStmt(c, id) ==
    [Insert(c, id, [email |-> OrNull(c.request.email),
                    phoneNumber |-> OrNull(c.request.phoneNumber),
                    linkPrecedence |-> "primary",
                    linkedId |-> NullId])
       EXCEPT !.ultimatePrimary = id, !.pc = "assemble"]

\* A variant of lines 75-81 that leaves the younger primaries as they are;
\* a joined group would then keep two primaries.
DemoteNothing(c, t) == [c EXCEPT !.pc = "findByLinkedId"]

\* identify, lines 75-81: the younger primaries become secondaries of the
\* ultimate primary.
DemoteStmt(c, t) ==
    [Update(c, t, Range(c.demotedPrimaryIds),
            [linkPrecedence |-> "secondary", linkedId |-> c.ultimatePrimary])
       EXCEPT !.pc = "findByLinkedId"]

\* identify, lines 84-90: one of the findByLinkedId queries, in the order
\* of demotedPrimaryIds.
FindByLinkedIdStmt(c, t) ==
    LET id == Head(c.demotedPrimaryIds)
        rest == Tail(c.demotedPrimaryIds)
        all == c.secondariesToRelink \cup {x.id : x \in findByLinkedId(View(c, t), id)}
    IN [c EXCEPT !.demotedPrimaryIds = rest,
                 !.secondariesToRelink = all,
                 !.pc = IF rest # <<>> THEN "findByLinkedId"
                        ELSE IF all # {} THEN "relink"
                        ELSE "checkGroup"]

\* A variant of lines 90-96 that leaves the secondaries of the demoted
\* primaries pointing at them; the group would then be two hops deep.
RelinkNothing(c, t) == [c EXCEPT !.pc = "checkGroup"]

\* A variant of lines 90-96 that re-points the secondaries and writes them
\* as primaries.
RelinkAsPrimary(c, t) ==
    [Update(c, t, c.secondariesToRelink,
            [linkPrecedence |-> "primary", linkedId |-> c.ultimatePrimary])
       EXCEPT !.pc = "checkGroup"]

\* identify, lines 90-96: the secondaries of the demoted primaries are
\* pointed at the ultimate primary.
RelinkStmt(c, t) ==
    [Update(c, t, c.secondariesToRelink, [linkedId |-> c.ultimatePrimary])
       EXCEPT !.pc = "checkGroup"]

\* A variant of lines 105-118 without the null checks: a row matches only
\* when it equals the request in both fields, so a request with one
\* identifier is never found in a row that holds two.
exactMatchIgnoringAbsence(group, email, phoneNumber) ==
    \E i \in 1..Len(group) :
        email = group[i].email /\ phoneNumber = group[i].phoneNumber

\* identify, lines 105-118: some single row of the group matches the
\* request in both fields.
exactMatchFoundInGroup(group, email, phoneNumber) ==
    \E i \in 1..Len(group) :
        LET emailMatches == email = NULL \/ email = group[i].email
            phoneMatches == phoneNumber = NULL \/ phoneNumber = group[i].phoneNumber
        IN emailMatches /\ phoneMatches

\* A variant of line 120 that does not consult the exact-match check; a
\* repeated pair would then be stored again.
needsSecondaryAlways(group, email, phoneNumber) ==
    Truthy(email) \/ Truthy(phoneNumber)

\* identify, line 120: the condition under which a secondary is created.
needsSecondary(group, email, phoneNumber) ==
    /\ ~exactMatchFoundInGroup(group, email, phoneNumber)
    /\ Truthy(email) \/ Truthy(phoneNumber)

\* identify, lines 99-120: the group is read back and the request is
\* compared with it.
CheckGroupStmt(c, t) ==
    {[c EXCEPT !.pc = IF needsSecondary(currentReconciledGroup, c.request.email,
                                        c.request.phoneNumber)
                      THEN "createSecondary" ELSE "assemble"] :
     currentReconciledGroup \in queryAllLinkedContacts(View(c, t), c.ultimatePrimary)}

\* A variant of lines 120-126 that leaves linkedId null; the new row
\* would then belong to no group.
CreateSecondaryUnlinked(c, id) ==
    [Insert(c, id, [email |-> OrNull(c.request.email),
                    phoneNumber |-> OrNull(c.request.phoneNumber),
                    linkPrecedence |-> "secondary",
                    linkedId |-> NullId])
       EXCEPT !.pc = "assemble"]

\* identify, lines 120-126: a secondary holding the request's values is
\* created under the ultimate primary.
CreateSecondaryStmt(c, id) ==
    [Insert(c, id, [email |-> OrNull(c.request.email),
                    phoneNumber |-> OrNull(c.request.phoneNumber),
                    linkPrecedence |-> "secondary",
                    linkedId |-> c.ultimatePrimary])
       EXCEPT !.pc = "assemble"]

\* A variant of lines 145-167 that returns the three lists in the order
\* the rows came in.
assembleResponseInRowOrder(allLinkedContacts, primaryId) ==
    [primaryContactId |-> primaryId,
     emails |-> Dedupe(SeqMap(LAMBDA x : x.email,
                              SeqFilter(LAMBDA x : Truthy(x.email), allLinkedContacts))),
     phoneNumbers |-> Dedupe(SeqMap(LAMBDA x : x.phoneNumber,
                                    SeqFilter(LAMBDA x : Truthy(x.phoneNumber),
                                              allLinkedContacts))),
     secondaryContactIds |->
         SeqMap(LAMBDA x : x.id,
                SeqFilter(LAMBDA x : x.linkPrecedence = "secondary"
                                     /\ x.linkedId = primaryId,
                          allLinkedContacts))]

\* identify, lines 145-167: the response built from the rows of the group.
assembleResponse(allLinkedContacts, primaryId) ==
    LET emails == Dedupe(SeqMap(LAMBDA x : x.email,
                                SeqFilter(LAMBDA x : Truthy(x.email), allLinkedContacts)))
        phoneNumbers == Dedupe(SeqMap(LAMBDA x : x.phoneNumber,
                                      SeqFilter(LAMBDA x : Truthy(x.phoneNumber),
                                                allLinkedContacts)))
        secondaryContactIds ==
            SeqMap(LAMBDA x : x.id,
                   SeqFilter(LAMBDA x : x.linkPrecedence = "secondary"
                                        /\ x.linkedId = primaryId,
                             allLinkedContacts))
    IN [primaryContactId |-> primaryId,
        emails |-> StableSort(StrLess, emails),
        phoneNumbers |-> StableSort(StrLess, phoneNumbers),
        secondaryContactIds |-> StableSort(LAMBDA a, b : a < b, secondaryContactIds)]

\* identify, lines 139-167: the group is read and the response assembled.
AssembleStmt(c, t) ==
    {[c EXCEPT !.response = assembleResponse(allLinkedContacts, c.ultimatePrimary),
               !.pc = "commit"] :
     allLinkedContacts \in queryAllLinkedContacts(View(c, t), c.ultimatePrimary)}

\* The statement c is at, executed against the committed table t; id is
\* the next value of the sequence.
Exec(c, t, id) ==
    CASE c.pc = "findContacts" -> FindContactsStmt(c, t)
      [] c.pc = "findById" -> {FindByIdStmt(c, t)}
      [] c.pc = "createPrimary" -> {CreatePrimaryStmt(c, id)}
      [] c.pc = "demote" -> {DemoteStmt(c, t)}
      [] c.pc = "findByLinkedId" -> {FindByLinkedIdStmt(c, t)}
      [] c.pc = "relink" -> {RelinkStmt(c, t)}
      [] c.pc = "checkGroup" -> CheckGroupStmt(c, t)
      [] c.pc = "createSecondary" -> {CreateSecondaryStmt(c, id)}
      [] c.pc = "assemble" -> AssembleStmt(c, t)

\* The callback of db.transaction run from c to the point of COMMIT with
\* no other transaction interleaved: the contexts it can end in.
RECURSIVE Run(_, _, _)
Run(c, t, id) ==
    IF c.pc = "commit" THEN {c}
    ELSE UNION {Run(d, t, id + Cardinality(d.created \ c.created)) : d \in Exec(c, t, id)}

\* The contexts the callback can be in when one of its queries fails: c
\* itself (the statement c is at fails) or any context reached from it.
RECURSIVE Reached(_, _, _)
Reached(c, t, id) ==
    IF c.pc = "commit" THEN {c}
    ELSE {c} \cup UNION {Reached(d, t, id + Cardinality(d.created \ c.created)) :
                           d \in Exec(c, t, id)}

\* A variant of ROLLBACK that keeps the row versions w written so far.
RollbackKeepingWrites(t, w) == Overlay(t, w)

\* PostgresDBClient.transaction, lines 27-29: ROLLBACK discards the row
\* versions w of the transaction; the committed table t is what it was.
Rollback(t, w) == t

\* -------------------------------------------------------------- actions
\* Number of connections with an identify call in progress.
Active == Cardinality({q \in Procs : txn[q].pc # "idle"})

Max(S) == CHOOSE x \in S : \A y \in S : y <= x

\* The latest timestamp in use, by a row version or by an open
\* transaction (NullTime when there is none). The clock has reached it;
\* identify reads only the order of timestamps, so the clock's later
\* readings are this one again or the one after it.
Latest ==
    LET stamps(t) == UNION {{t[i].createdAt, t[i].updatedAt} : i \in DOMAIN t}
    IN Max({NullTime} \cup stamps(contacts)
               \cup UNION {stamps(txn[q].writes) : q \in Procs}
               \cup {txn[q].txnTime : q \in {r \in Procs : txn[r].pc # "idle"}})

\* CURRENT_TIMESTAMP of a transaction that begins after every earlier
\* transaction has ended: the clock (microseconds) has moved on.
LaterTime == Latest + 1

\* CURRENT_TIMESTAMP of a transaction that begins while another is open:
\* the clock may not have moved on since that one began.
BeginTimes == {Latest, Latest + 1} \ {NullTime}

\* What the caller of a completed identify call observes.
Completed(c, again) ==
    /\ request' = c.request
    /\ response' = c.response
    /\ outcome' = "ok"
    /\ before' = contacts
    /\ created' = c.created
    /\ resubmitted' = again
    /\ prevResponse' = IF again THEN response ELSE NoResponse
    /\ statusCode' = StatusOk

\* identify, lines 10-169, with db.transaction (db.ts, lines 18-34): one
\* whole call that passes validation, run with no other call in progress.
\* The table holds at most MaxContacts rows.
Identify(email, phoneNumber) ==
    /\ Active = 0
    /\ Truthy(email) \/ Truthy(phoneNumber)
    /\ \E c \in Run(BeginTxn(email, phoneNumber, LaterTime), contacts, nextId) :
         /\ nextId + Cardinality(c.created) <= MaxContacts + 1
         /\ contacts' = Overlay(contacts, c.writes)
         /\ nextId' = nextId + Cardinality(c.created)
         /\ Completed(c, outcome = "ok" /\ request = c.request)
    /\ UNCHANGED <<txn, overlaps>>

\* identify called while the table holds fewer than MaxContacts rows.
IdentifyWithRoom(email, phoneNumber) ==
    /\ nextId <= MaxContacts
    /\ Identify(email, phoneNumber)

\* identify with db.transaction's catch (db.ts, lines 27-32): a query of
\* the call fails, at any statement from the first read to COMMIT; the
\* transaction is rolled back, the error is rethrown and the handler's
\* catch answers. Values drawn from the sequence are not given back.
IdentifyFails(email, phoneNumber) ==
    /\ Active = 0
    /\ Truthy(email) \/ Truthy(phoneNumber)
    /\ \E c \in Reached(BeginTxn(email, phoneNumber, LaterTime), contacts, nextId) :
         /\ nextId + Cardinality(c.created) <= MaxContacts + 1
         /\ contacts' = Rollback(contacts, c.writes)
         /\ nextId' = nextId + Cardinality(c.created)
         /\ request' = c.request
         /\ created' = c.created
    /\ response' = NoResponse
    /\ outcome' = "error"
    /\ before' = contacts
    /\ resubmitted' = FALSE
    /\ prevResponse' = NoResponse
    /\ statusCode' = StatusServerError
    /\ UNCHANGED <<txn, overlaps>>

\* handler, lines 176-183: the event has no body; the handler answers
\* without calling identify.
MissingBody ==
    /\ Active = 0
    /\ request' = NoRequest
    /\ response' = NoResponse
    /\ outcome' = "error"
    /\ before' = contacts
    /\ created' = {}
    /\ resubmitted' = FALSE
    /\ prevResponse' = NoResponse
    /\ statusCode' = StatusBadRequest
    /\ UNCHANGED <<contacts, nextId, txn, overlaps>>

\* identify, lines 15-17: neither field is truthy, the call throws before
\* any transaction begins; the handler's catch (lines 194-203) answers.
Reject(email, phoneNumber) ==
    /\ Active = 0
    /\ ~Truthy(email) /\ ~Truthy(phoneNumber)
    /\ request' = [email |-> email, phoneNumber |-> phoneNumber]
    /\ response' = NoResponse
    /\ outcome' = "error"
    /\ before' = contacts
    /\ created' = {}
    /\ resubmitted' = FALSE
    /\ prevResponse' = NoResponse
    /\ statusCode' = StatusServerError
    /\ UNCHANGED <<contacts, nextId, txn, overlaps>>

\* No call is being observed: the history describes the latest call
\* that ran alone, and is blank from the moment calls run concurrently.
Unobserved ==
    /\ request' = NoRequest
    /\ response' = NoResponse
    /\ outcome' = "none"
    /\ before' = EmptyTable
    /\ created' = {}
    /\ resubmitted' = FALSE
    /\ prevResponse' = NoResponse
    /\ statusCode' = NoStatus

\* runLocalTests, lines 174-183, which the module runs when it is loaded
\* (line 244): one transaction deletes every row of Contact and restarts
\* the sequence. The identify calls that follow it are calls like any
\* other.
runLocalTests ==
    /\ Active = 0
    /\ contacts' = EmptyTable
    /\ nextId' = 1
    /\ Unobserved
    /\ UNCHANGED <<txn, overlaps>>

\* identify, lines 13-19, on connection p: validation passes and BEGIN
\* opens the transaction. Connection 1 opens first and connection 2 while
\* the call on connection 1 is in progress; there is room in the table for
\* a row of each.
Begin(p, email, phoneNumber) ==
    /\ txn[p].pc = "idle"
    /\ Truthy(email) \/ Truthy(phoneNumber)
    /\ nextId + 1 <= MaxContacts
    /\ overlaps < MaxOverlaps
    /\ IF p = 1
       THEN Active = 0 /\ UNCHANGED overlaps
       ELSE txn[1].pc # "idle" /\ overlaps' = overlaps + 1
    /\ \E t \in (IF Active = 0 THEN {LaterTime} ELSE BeginTimes) :
         txn' = [txn EXCEPT ![p] = BeginTxn(email, phoneNumber, t)]
    /\ Unobserved
    /\ UNCHANGED <<contacts, nextId>>

\* The transaction on connection p executes the statement it is at.
Statement(p) ==
    /\ \E d \in Exec(txn[p], contacts, nextId) :
         /\ txn' = [txn EXCEPT ![p] = d]
         /\ nextId' = nextId + Cardinality(d.created \ txn[p].created)
    /\ UNCHANGED <<contacts, history, overlaps>>

\* An UPDATE waits while another transaction holds an uncommitted version
\* of a row it has to write.
Unlocked(p, ids) == \A q \in Procs \ {p} : ids \cap DOMAIN txn[q].writes = {}

FindContacts(p) ==
    /\ txn[p].pc = "findContacts"
    /\ Statement(p)

FindById(p) ==
    /\ txn[p].pc = "findById"
    /\ Statement(p)

CreatePrimary(p) ==
    /\ txn[p].pc = "createPrimary"
    /\ Statement(p)

Demote(p) ==
    /\ txn[p].pc = "demote"
    /\ Unlocked(p, Range(txn[p].demotedPrimaryIds))
    /\ Statement(p)

FindByLinkedId(p) ==
    /\ txn[p].pc = "findByLinkedId"
    /\ Statement(p)

Relink(p) ==
    /\ txn[p].pc = "relink"
    /\ Unlocked(p, txn[p].secondariesToRelink)
    /\ Statement(p)

CheckGroup(p) ==
    /\ txn[p].pc = "checkGroup"
    /\ Statement(p)

CreateSecondary(p) ==
    /\ txn[p].pc = "createSecondary"
    /\ Statement(p)

Assemble(p) ==
    /\ txn[p].pc = "assemble"
    /\ Statement(p)

\* PostgresDBClient.transaction, lines 25-26: COMMIT publishes the
\* transaction's row versions and identify returns the response.
Commit(p) ==
    /\ txn[p].pc = "commit"
    /\ contacts' = Overlay(contacts, txn[p].writes)
    /\ txn' = [txn EXCEPT ![p] = IdleTxn]
    /\ UNCHANGED <<nextId, history, overlaps>>

\* ------------------------------------------------------- specifications
\* The table is empty and the sequence starts at 1 (runLocalTests clears
\* the table and restarts the sequence before its first request).
Init ==
    /\ contacts = EmptyTable
    /\ nextId = 1
    /\ txn = [p \in Procs |-> IdleTxn]
    /\ request = NoRequest
    /\ response = NoResponse
    /\ outcome = "none"
    /\ before = EmptyTable
    /\ created = {}
    /\ resubmitted = FALSE
    /\ prevResponse = NoResponse
    /\ statusCode = NoStatus
    /\ overlaps = 0

\* Requests served one at a time: each identify call runs to completion
\* before the next is made. Requests are made while the table has room.
Next ==
    \/ \E email \in EmailInputs, phoneNumber \in PhoneInputs : IdentifyWithRoom(email, phoneNumber)
    \/ \E email \in EmailInputs, phoneNumber \in PhoneInputs : Reject(email, phoneNumber)
    \/ MissingBody

Spec == Init /\ [][Next]_vars

\* Requests served one at a time by a process that may load the module
\* again (a new process, a cold start) between two requests.
NextModuleLoad ==
    \/ Next
    \/ runLocalTests

SpecModuleLoad == Init /\ [][NextModuleLoad]_vars

\* Requests served one at a time, over a connection whose queries may
\* fail.
NextFailing ==
    \/ \E email \in FewEmailInputs, phoneNumber \in FewPhoneInputs : Identify(email, phoneNumber)
    \/ \E email \in FewEmailInputs, phoneNumber \in FewPhoneInputs : IdentifyFails(email, phoneNumber)

SpecFailing == Init /\ [][NextFailing]_vars

\* Requests served one at a time or, up to MaxOverlaps times, two at once,
\* each on its own connection and in its own transaction, their statements
\* interleaved.
NextConcurrent ==
    \/ \E email \in FewEmailInputs, phoneNumber \in FewPhoneInputs : Identify(email, phoneNumber)
    \/ \E p \in Procs :
        \/ \E email \in FewEmailInputs, phoneNumber \in FewPhoneInputs : Begin(p, email, phoneNumber)
        \/ FindContacts(p)
        \/ FindById(p)
        \/ CreatePrimary(p)
        \/ Demote(p)
        \/ FindByLinkedId(p)
        \/ Relink(p)
        \/ CheckGroup(p)
        \/ CreateSecondary(p)
        \/ Assemble(p)
        \/ Commit(p)

SpecConcurrent == Init /\ [][NextConcurrent]_vars

\* ------------------------------------------------------------- properties
\* A request has completed and was resolved (no call is in progress).
Resolved == outcome = "ok" /\ Active = 0

\* The id of the primary a row belongs to, as the row itself states it.
PrimaryOf(r) == IF r.linkPrecedence = "primary" THEN r.id ELSE r.linkedId

\* Two rows share a non-null email or a non-null phoneNumber.
Shares(a, b) ==
    \/ a.email # NULL /\ a.email = b.email
    \/ a.phoneNumber # NULL /\ a.phoneNumber = b.phoneNumber

\* The rows of rows connected to a row of S through shared identifiers.
RECURSIVE Connected(_, _)
Connected(S, rows) ==
    LET more == S \cup {b \in rows : \E a \in S : Shares(a, b)}
    IN IF more = S THEN S ELSE Connected(more, rows)

\* What a stored column holds of a submitted field: the value, or NULL when
\* no value (null, undefined or the empty string) was submitted.
Stored(v) == IF v \in Emails \cup Phones THEN v ELSE NULL

\* C1 (one-hop flatness): between requests, every live secondary's linkedId
\* is the id of a live row whose linkPrecedence is primary.
C1_Flat ==
    Active = 0 =>
        \A r \in Live(contacts) :
            r.linkPrecedence = "secondary" =>
                \E q \in Live(contacts) : q.id = r.linkedId /\ q.linkPrecedence = "primary"

\* A merge has just re-pointed a secondary of the demoted primary.
C1_Witness ==
    /\ Resolved
    /\ \E i \in DOMAIN before :
          /\ before[i].linkPrecedence = "secondary"
          /\ contacts[i].linkedId # before[i].linkedId
          /\ contacts[before[i].linkedId].linkPrecedence = "secondary"

\* C2 (single primary): between requests, every set of live rows connected
\* through shared emails or phoneNumbers holds exactly one primary.
C2_OnePrimaryPerGroup ==
    Active = 0 =>
        \A r \in Live(contacts) :
            Cardinality({q \in Connected({r}, Live(contacts)) :
                            q.linkPrecedence = "primary"}) = 1

\* Two groups, each with its own primary, have just been joined by a
\* request and one of the primaries was demoted.
C2_Witness ==
    /\ Resolved
    /\ \E i \in DOMAIN before :
          /\ before[i].linkPrecedence = "primary"
          /\ contacts[i].linkPrecedence = "secondary"
    /\ Cardinality(Live(contacts)) >= 3

\* C4 (no duplicate pair): between requests, no two live rows of one group
\* hold the same email and the same phoneNumber, both non-null.
C4_NoDuplicatePair ==
    Active = 0 =>
        \A a, b \in Live(contacts) :
            (/\ a.id # b.id
             /\ PrimaryOf(a) = PrimaryOf(b)
             /\ a.email # NULL /\ a.phoneNumber # NULL)
            => ~(a.email = b.email /\ a.phoneNumber = b.phoneNumber)

\* A request whose pair a live row already held has completed and created
\* nothing.
C4_Witness ==
    /\ Resolved
    /\ Truthy(request.email) /\ Truthy(request.phoneNumber)
    /\ \E r \in Live(before) :
          r.email = request.email /\ r.phoneNumber = request.phoneNumber
    /\ created = {}
    /\ Cardinality(Live(contacts)) >= 2

\* C5 (idempotent resubmission): an accepted request (a field may be the
\* empty string) repeated right after it completed creates no row, changes
\* no row's linkPrecedence or linkedId and returns the response of the
\* first run.
C5_Idempotent ==
    (Resolved /\ resubmitted) =>
        /\ created = {}
        /\ DOMAIN contacts = DOMAIN before
        /\ \A i \in DOMAIN before :
              /\ contacts[i].linkPrecedence = before[i].linkPrecedence
              /\ contacts[i].linkedId = before[i].linkedId
        /\ response = prevResponse

\* The rows of the group the completed request resolved to, without the
\* row the request itself added.
ResolvedGroup ==
    {r \in Live(contacts) :
        /\ r.id \notin created
        /\ r.id = response.primaryContactId \/ r.linkedId = response.primaryContactId}

\* C6 (input already covered): when an existing group is found and each
\* submitted field is absent or held by some row of the resolved group
\* (not necessarily the same row for both), no row is created.
C6_CoveredCreatesNothing ==
    (/\ Resolved
     /\ response.primaryContactId \in DOMAIN before
     /\ request.email = NULL \/ \E r \in ResolvedGroup : r.email = request.email
     /\ request.phoneNumber = NULL
           \/ \E r \in ResolvedGroup : r.phoneNumber = request.phoneNumber)
    => created = {}

JoinsGroups(a, b) ==
    /\ Truthy(request.email) /\ a.email = request.email
    /\ Truthy(request.phoneNumber) /\ b.phoneNumber = request.phoneNumber
    /\ PrimaryOf(a) # PrimaryOf(b)
    /\ before[PrimaryOf(a)].createdAt # before[PrimaryOf(b)].createdAt

\* The older primary stayed primary; the younger primary and each of its
\* secondaries now point at it and are listed in the response.
MergedInto(older, younger) ==
    LET moved == {younger} \cup {r.id : r \in {x \in Live(before) : x.linkedId = younger}}
    IN /\ contacts[older].linkPrecedence = "primary"
       /\ contacts[older].linkedId = NullId
       /\ \A i \in moved :
             /\ contacts[i].linkPrecedence = "secondary"
             /\ contacts[i].linkedId = older
       /\ response.primaryContactId = older
       /\ moved \subseteq Range(response.secondaryContactIds)

\* C8 (merge): a request whose email matches one group and whose
\* phoneNumber matches another keeps the older primary, demotes the younger
\* to a secondary of the older, re-points the younger's secondaries and
\* returns the older primary with all of them as secondaries.
C8_Merge ==
    Resolved =>
        \A a, b \in Live(before) :
            JoinsGroups(a, b) =>
                LET pa == PrimaryOf(a)
                    pb == PrimaryOf(b)
                IN IF before[pa].createdAt < before[pb].createdAt
                   THEN MergedInto(pa, pb)
                   ELSE MergedInto(pb, pa)

\* A merge has completed in which the younger primary had a secondary.
C8_Witness ==
    /\ Resolved
    /\ \E a, b \in Live(before) :
          /\ JoinsGroups(a, b)
          /\ \E x \in Live(before) :
                /\ x.linkPrecedence = "secondary"
                /\ contacts[x.id].linkedId # x.linkedId

\* The request holds two values; field is held by a live row and the other
\* field by none.
Extends(known, new, held(_), heldNew(_)) ==
    /\ Truthy(known) /\ Truthy(new)
    /\ \E r \in Live(before) : held(r) = known
    /\ \A r \in Live(before) : heldNew(r) # new

\* The request added exactly one row, a secondary of primary p holding
\* the submitted values, and the response names p, the row and the value.
AddedSecondary(p) ==
    /\ Cardinality(created) = 1
    /\ DOMAIN contacts = DOMAIN before \cup created
    /\ \A i \in created :
          /\ i \notin DOMAIN before
          /\ contacts[i].linkPrecedence = "secondary"
          /\ contacts[i].linkedId = p
          /\ contacts[i].email = request.email
          /\ contacts[i].phoneNumber = request.phoneNumber
          /\ contacts[i].deletedAt = NullTime
          /\ i \in Range(response.secondaryContactIds)
    /\ response.primaryContactId = p
    /\ request.email \in Range(response.emails)
    /\ request.phoneNumber \in Range(response.phoneNumbers)

\* C9 (extension): a request with one identifier held by a live row of a
\* group and the other held by no live row creates exactly one row, a
\* secondary of that group's primary holding exactly the submitted values;
\* the response keeps the group's primary and lists the new row and value.
C9_Extension ==
    Resolved =>
        /\ Extends(request.email, request.phoneNumber,
                   LAMBDA r : r.email, LAMBDA r : r.phoneNumber)
           => \A r \in Live(before) :
                 r.email = request.email => AddedSecondary(PrimaryOf(r))
        /\ Extends(request.phoneNumber, request.email,
                   LAMBDA r : r.phoneNumber, LAMBDA r : r.email)
           => \A r \in Live(before) :
                 r.phoneNumber = request.phoneNumber => AddedSecondary(PrimaryOf(r))

\* A request has extended a group through a value held by a secondary.
C9_Witness ==
    /\ Resolved
    /\ Extends(request.phoneNumber, request.email,
               LAMBDA r : r.phoneNumber, LAMBDA r : r.email)
    /\ \A r \in Live(before) :
          r.phoneNumber = request.phoneNumber => r.linkPrecedence = "secondary"
    /\ Cardinality(created) = 1

\* No live row held the request's email or phoneNumber when it was made.
Unknown ==
    \A r \in Live(before) :
        /\ ~(Truthy(request.email) /\ r.email = request.email)
        /\ ~(Truthy(request.phoneNumber) /\ r.phoneNumber = request.phoneNumber)

\* C10 (new group): when no live row holds the submitted email or
\* phoneNumber, the request creates exactly one row, a primary with
\* linkedId null holding the submitted values, changes no other row and
\* returns the new id with only the submitted values and no secondaries.
C10_NewPrimary ==
    (Resolved /\ Unknown) =>
        /\ Cardinality(created) = 1
        /\ DOMAIN contacts = DOMAIN before \cup created
        /\ \A i \in DOMAIN before : contacts[i] = before[i]
        /\ \A i \in created :
              /\ i \notin DOMAIN before
              /\ contacts[i].linkPrecedence = "primary"
              /\ contacts[i].linkedId = NullId
              /\ contacts[i].email = Stored(request.email)
              /\ contacts[i].phoneNumber = Stored(request.phoneNumber)
              /\ contacts[i].deletedAt = NullTime
              /\ response.primaryContactId = i
        /\ response.emails =
              IF Truthy(request.email) THEN <<request.email>> ELSE <<>>
        /\ response.phoneNumbers =
              IF Truthy(request.phoneNumber) THEN <<request.phoneNumber>> ELSE <<>>
        /\ response.secondaryContactIds = <<>>

\* A second group has been founded beside an existing one.
C10_Witness ==
    /\ Resolved /\ Unknown
    /\ Live(before) # {}
    /\ Truthy(request.email) /\ Truthy(request.phoneNumber)
    /\ Cardinality(created) = 1

\* C3 (racing requests): two requests with the same new email and
\* phoneNumber, run concurrently, do not both create a primary: the
\* committed table never holds two live primaries with the same email and
\* the same phoneNumber.
C3_OneCreatesPrimary ==
    \A a, b \in Live(contacts) :
        (/\ a.id # b.id
         /\ a.linkPrecedence = "primary" /\ b.linkPrecedence = "primary"
         /\ a.email # NULL /\ a.phoneNumber # NULL)
        => ~(a.email = b.email /\ a.phoneNumber = b.phoneNumber)

\* C11 (validation): a request with neither email nor phoneNumber ends in
\* an error that the caller receives as a client error (statusCode 4xx),
\* with no transaction begun and no row read, created or changed.
C11_ValidationIsClientError ==
    (/\ outcome = "error"
     /\ ~Truthy(request.email) /\ ~Truthy(request.phoneNumber))
    => /\ statusCode \in 400..499
       /\ contacts = before
       /\ created = {}
       /\ Active = 0

\* C12 (rollback): when a query of an accepted request fails, at whatever
\* statement, the request ends in an error and the committed table is
\* exactly what it was before the request: none of its demotions, relinks
\* or inserted rows is visible.
C12_FailureLeavesStore ==
    (outcome = "error" /\ (Truthy(request.email) \/ Truthy(request.phoneNumber)))
    => /\ contacts = before
       /\ created \cap DOMAIN contacts = {}
       /\ response = NoResponse

\* A request that joined two groups failed after it had demoted a primary
\* and inserted its secondary.
C12_Witness ==
    /\ outcome = "error"
    /\ created # {}
    /\ \E a, b \in Live(before) :
          /\ a.linkPrecedence = "primary" /\ b.linkPrecedence = "primary"
          /\ a.id # b.id
          /\ a.email = request.email /\ a.email # NULL
          /\ b.phoneNumber = request.phoneNumber /\ b.phoneNumber # NULL

\* The live secondaries of table t that name primary p.
SecondariesOf(t, p) ==
    {r \in Live(t) : r.linkPrecedence = "secondary" /\ r.linkedId = p}

\* resp is the description of the group of its primaryContactId in table
\* t: the ids of the group's secondaries ascending, and the group's
\* non-null emails and phoneNumbers, each once, in code-unit order.
Describes(resp, t) ==
    LET p == resp.primaryContactId
        group == SecondariesOf(t, p) \cup {r \in Live(t) : r.id = p}
        ids == resp.secondaryContactIds
    IN /\ Range(ids) = {r.id : r \in SecondariesOf(t, p)}
       /\ \A i, j \in 1..Len(ids) : i < j => ids[i] < ids[j]
       /\ p \notin Range(ids)
       /\ Range(resp.emails) = {r.email : r \in group} \ {NULL}
       /\ \A i, j \in 1..Len(resp.emails) :
             i < j => StrLess(resp.emails[i], resp.emails[j])
       /\ Range(resp.phoneNumbers) = {r.phoneNumber : r \in group} \ {NULL}
       /\ \A i, j \in 1..Len(resp.phoneNumbers) :
             i < j => StrLess(resp.phoneNumbers[i], resp.phoneNumbers[j])

\* C13 (response): the response of a successful request describes the
\* final group and nothing else (secondaryContactIds ascending, without
\* the primary; each non-null email and phoneNumber once, in one fixed
\* order), and every order in which the store may return the rows of a
\* group, rows of equal createdAt included, gives that same response.
C13_ResponseOfGroup ==
    /\ Resolved => Describes(response, contacts)
    /\ \A r \in Live(contacts) :
          r.linkPrecedence = "primary" =>
              \A rows \in queryAllLinkedContacts(contacts, r.id) :
                  Describes(assembleResponse(rows, r.id), contacts)

\* A request has returned a group of three rows, two of them with the
\* same createdAt, the later id holding the smaller email.
C13_Witness ==
    /\ Resolved
    /\ Len(response.secondaryContactIds) >= 2
    /\ Len(response.emails) >= 2
    /\ \E a, b \in Live(contacts) :
          /\ a.id < b.id /\ a.createdAt = b.createdAt
          /\ {a.id, b.id} \subseteq
                Range(response.secondaryContactIds) \cup {response.primaryContactId}
          /\ a.email # NULL /\ b.email # NULL /\ StrLess(b.email, a.email)

\* Row r holds a value the request submitted.
MatchedBy(r) ==
    \/ Truthy(request.email) /\ r.email = request.email
    \/ Truthy(request.phoneNumber) /\ r.phoneNumber = request.phoneNumber

\* The candidate primaries of the completed request: the live primaries
\* it matched directly or reached through a matched secondary.
Candidates ==
    {id \in {PrimaryOf(r) : r \in {x \in Live(before) : MatchedBy(x)}} :
        \E q \in Live(before) : q.id = id /\ q.linkPrecedence = "primary"}

\* Row a comes before row b in the order of (createdAt, id).
Precedes(a, b) ==
    \/ a.createdAt < b.createdAt
    \/ a.createdAt = b.createdAt /\ a.id <= b.id

\* C14 (survivor): of the candidate primaries of a request, matched
\* directly or through a secondary, the survivor is the one with the
\* earliest createdAt and, among equals, the lowest id; so the primary of
\* every group is the group's minimum in (createdAt, id).
C14_OldestLowestIdSurvives ==
    /\ (Resolved /\ Candidates # {}) =>
          /\ response.primaryContactId \in Candidates
          /\ \A c \in Candidates :
                Precedes(before[response.primaryContactId], before[c])
    /\ Active = 0 =>
          \A r \in Live(contacts) :
              r.linkPrecedence = "secondary" =>
                  \A q \in Live(contacts) :
                      (q.id = r.linkedId /\ q.linkPrecedence = "primary")
                      => Precedes(q, r)

\* C15 (flat under concurrency): whatever the interleaving of concurrent
\* transactions, no committed table holds a live secondary whose linkedId
\* names a row that is itself a secondary.
C15_FlatUnderConcurrency ==
    \A r \in Live(contacts) :
        r.linkPrecedence = "secondary" =>
            \A q \in Live(contacts) :
                q.id = r.linkedId => q.linkPrecedence = "primary"

\* Row r of table t is a live secondary whose linkedId does not name a
\* live primary.
Dangling(r, t) ==
    /\ r.linkPrecedence = "secondary"
    /\ ~\E q \in Live(t) : q.id = r.linkedId /\ q.linkPrecedence = "primary"

\* C16 (unresolvable secondary): a request that matches a live secondary
\* whose linkedId does not resolve to a live primary ends in an error and
\* changes nothing; it does not go on as if the secondary were not there.
C16_DanglingSecondaryAborts ==
    (/\ outcome # "none"
     /\ \E r \in Live(before) : MatchedBy(r) /\ Dangling(r, before))
    => /\ outcome = "error"
       /\ contacts = before
       /\ created = {}

\* C17 (no re-promotion): a row that is a secondary, by demotion or from
\* its creation, is a secondary in every later state.
C17_NeverPrimaryAgain ==
    [][\A i \in DOMAIN contacts :
          contacts[i].linkPrecedence = "secondary" =>
              /\ i \in DOMAIN contacts'
              /\ contacts'[i].linkPrecedence = "secondary"]_vars

\* A request has rewritten a row that was a secondary, and the row is
\* still a secondary.
C17_Witness ==
    /\ Resolved
    /\ \E i \in DOMAIN before :
          /\ before[i].linkPrecedence = "secondary"
          /\ contacts[i].updatedAt # before[i].updatedAt
          /\ contacts[i].linkPrecedence = "secondary"

\* C18 (frame): no step, the loading of the module included, removes a
\* row or changes a row's id, email, phoneNumber, createdAt or deletedAt;
\* only linkPrecedence, linkedId and updatedAt change after creation.
C18_RowsKept ==
    [][\A i \in DOMAIN contacts :
          /\ i \in DOMAIN contacts'
          /\ contacts'[i].id = contacts[i].id
          /\ contacts'[i].email = contacts[i].email
          /\ contacts'[i].phoneNumber = contacts[i].phoneNumber
          /\ contacts'[i].createdAt = contacts[i].createdAt
          /\ contacts'[i].deletedAt = contacts[i].deletedAt]_vars

\* The candidate primaries the request of connection p would find in the
\* committed table now: the primaries that match it and the primaries of
\* the secondaries that match it.
FreshCandidates(p) ==
    LET found == findContactsWhere(contacts, txn[p].request.email,
                                   txn[p].request.phoneNumber)
    IN {r.id : r \in {x \in found : x.linkPrecedence = "primary"}}
       \cup {q.id : q \in {x \in Live(contacts) :
                              /\ x.linkPrecedence = "primary"
                              /\ \E y \in found : /\ y.linkPrecedence # "primary"
                                                  /\ y.linkedId = x.id}}

\* The transaction of connection p is about to commit decisions it took on
\* reads that a transaction committed since has made stale.
Stale(p) ==
    /\ txn[p].pc = "commit"
    /\ FreshCandidates(p) # {r.id : r \in Range(txn[p].primaryContacts)}

\* C19 (retry): a transaction that has lost a conflict with a concurrent
\* transaction starts again from its first read, or ends in an error; the
\* decisions it took on the stale reads are never applied to the table.
C19_StaleDecisionsNotApplied ==
    [][\A p \in Procs :
          Stale(p) =>
              \/ txn'[p] = txn[p]
              \/ /\ txn'[p].pc \in {"findContacts", "idle"}
                 /\ txn'[p].writes = EmptyTable
                 /\ contacts' = contacts]_vars

\* C20 (coverage): after a successful request, every live row holding the
\* submitted email or the submitted phoneNumber is the response's primary
\* or one of its secondaries, and each value submitted is in the
\* response's emails or phoneNumbers.
C20_ResponseCoversMatches ==
    Resolved =>
        /\ \A r \in Live(contacts) :
              MatchedBy(r) =>
                  r.id \in {response.primaryContactId}
                              \cup Range(response.secondaryContactIds)
        /\ Truthy(request.email) => request.email \in Range(response.emails)
        /\ Truthy(request.phoneNumber) =>
              request.phoneNumber \in Range(response.phoneNumbers)

\* A request has completed whose values only secondaries held, in a table
\* that also holds another group.
C20_Witness ==
    /\ Resolved
    /\ \E r \in Live(before) : MatchedBy(r)
    /\ \A r \in Live(before) : MatchedBy(r) => r.linkPrecedence = "secondary"
    /\ \E r \in Live(contacts) : PrimaryOf(r) # response.primaryContactId

====
